---------------------------- MODULE Spec2Model ----------------------------
(***************************************************************************)
(* A model of the fuzzy_search crate (src/src/lib.rs): the generation of a *)
(* tolerant regular expression from a search term and a FuzzyConfig, and   *)
(* the evaluation of that expression against a text.                       *)
(*                                                                         *)
(* A character is a TLA+ string: a printable ASCII character stands for    *)
(* itself, "\t" "\n" "\r" are the ASCII controls of that name, and a       *)
(* character outside printable ASCII is named by its code point, such as   *)
(* "U+00E9".  A Rust String is a sequence of characters; the pattern that  *)
(* build_pattern returns is such a sequence, character by character.       *)
(***************************************************************************)
EXTENDS Integers, Sequences, FiniteSets, TLC

(***************************************************************************)
(* Characters and the std predicates the code calls on them.               *)
(***************************************************************************)
AsciiLowercase ==
    << "a", "b", "c", "d", "e", "f", "g", "h", "i", "j", "k", "l", "m",
       "n", "o", "p", "q", "r", "s", "t", "u", "v", "w", "x", "y", "z" >>

AsciiUppercase ==
    << "A", "B", "C", "D", "E", "F", "G", "H", "I", "J", "K", "L", "M",
       "N", "O", "P", "Q", "R", "S", "T", "U", "V", "W", "X", "Y", "Z" >>

AsciiDigits == << "0", "1", "2", "3", "4", "5", "6", "7", "8", "9" >>

\* The ASCII punctuation characters, the grave accent (U+0060) left out.
AsciiPunctuation ==
    { "!", "\"", "#", "$", "%", "&", "'", "(", ")", "*", "+", ",", "-", ".",
      "/", ":", ";", "<", "=", ">", "?", "@", "[", "\\", "]", "^", "_", "{",
      "|", "}", "~" }

\* ASCII characters that are neither graphic nor white space (U+0001, U+007F).
AsciiControl == { "U+0001", "U+007F" }

\* White_Space: the ASCII ones, then NEL, NO-BREAK SPACE, LINE SEPARATOR.
AsciiWhitespace == { " ", "\t", "\n", "\r" }

UnicodeWhitespace == { "U+0085", "U+00A0", "U+2028" }

\* Non-ASCII letters with their case pairs (e-acute, Cyrillic pe), and a
\* non-ASCII format character (ZERO WIDTH SPACE, category Cf).
NonAsciiLower == << "U+00E9", "U+043F" >>

NonAsciiUpper == << "U+00C9", "U+041F" >>

NonAsciiFormat == { "U+200B" }

Range(s) == { s[i] : i \in DOMAIN s }

IndexOf(s, c) == CHOOSE i \in DOMAIN s : s[i] = c

\* char::is_ascii
is_ascii(c) ==
    \/ c \in Range(AsciiLowercase) \cup Range(AsciiUppercase)
    \/ c \in Range(AsciiDigits) \cup AsciiPunctuation
    \/ c \in AsciiControl \cup AsciiWhitespace

\* char::is_ascii_punctuation
is_ascii_punctuation(c) == c \in AsciiPunctuation

\* char::is_ascii_digit
is_ascii_digit(c) == c \in Range(AsciiDigits)

\* char::is_whitespace (the Unicode White_Space property)
is_whitespace(c) == c \in AsciiWhitespace \cup UnicodeWhitespace

\* char::to_lowercase
to_lowercase(c) ==
    IF c \in Range(AsciiUppercase) THEN AsciiLowercase[IndexOf(AsciiUppercase, c)]
    ELSE IF c \in Range(NonAsciiUpper) THEN NonAsciiLower[IndexOf(NonAsciiUpper, c)]
    ELSE c

\* char::to_uppercase
to_uppercase(c) ==
    IF c \in Range(AsciiLowercase) THEN AsciiUppercase[IndexOf(AsciiLowercase, c)]
    ELSE IF c \in Range(NonAsciiLower) THEN NonAsciiUpper[IndexOf(NonAsciiLower, c)]
    ELSE c

(***************************************************************************)
(* Strings.                                                                *)
(***************************************************************************)
RECURSIVE Join(_, _)
\* [String]::join(sep)
Join(ss, sep) ==
    IF ss = << >> THEN << >>
    ELSE IF Len(ss) = 1 THEN ss[1]
    ELSE ss[1] \o sep \o Join(Tail(ss), sep)

RECURSIVE TrimStart(_)
TrimStart(s) ==
    IF s # << >> /\ is_whitespace(Head(s)) THEN TrimStart(Tail(s)) ELSE s

RECURSIVE TrimEnd(_)
TrimEnd(s) ==
    IF s # << >> /\ is_whitespace(s[Len(s)])
    THEN TrimEnd(SubSeq(s, 1, Len(s) - 1))
    ELSE s

\* str::trim
Trim(s) == TrimEnd(TrimStart(s))

RECURSIVE Split(_, _, _)
\* str::split(pred): the pieces between the characters of seps (those pred
\* holds of), empty pieces included; cur is the piece being read.
Split(s, seps, cur) ==
    IF s = << >> THEN << cur >>
    ELSE IF Head(s) \in seps THEN << cur >> \o Split(Tail(s), seps, << >>)
    ELSE Split(Tail(s), seps, Append(cur, Head(s)))

NonEmpty(s) == s # << >>

\* str::split_whitespace: the non-empty pieces between white space.
split_whitespace(s) ==
    SelectSeq(Split(s, AsciiWhitespace \cup UnicodeWhitespace, << >>), NonEmpty)

RECURSIVE DecimalDigits(_)
\* Display for usize: the decimal digits of n.
DecimalDigits(n) ==
    IF n < 10 THEN << AsciiDigits[n + 1] >>
    ELSE Append(DecimalDigits(n \div 10), AsciiDigits[(n % 10) + 1])


(***************************************************************************)
(* FuzzyError and the Result that build_pattern returns.                   *)
(***************************************************************************)
Ok(p) == [tag |-> "Ok", error |-> "", pattern |-> p]

Err(e) == [tag |-> "Err", error |-> e, pattern |-> << >>]

EmptyPattern == Err("EmptyPattern")

InvalidPattern == Err("InvalidPattern")

RegexError == Err("RegexError")

(***************************************************************************)
(* FuzzyConfig.  required_char_ratio is an f32 in [0, 1]; the model holds  *)
(* it in hundredths.                                                       *)
(***************************************************************************)
RatioScale == 100

\* f32::clamp(0.0, 1.0), the transform the builder applies of required_char_ratio
clamp(v) == IF v < 0 THEN 0 ELSE IF v > RatioScale THEN RatioScale ELSE v

\* FuzzyConfig::builder() ... .build(): the defaults of the fields not set
DefaultMinWordLength == 3

DefaultRequiredCharRatio == 50

DefaultMaxCharGap == 10

FuzzyConfig(term, mwl, ratio, cs, gap) ==
    [ search_term |-> term,
      min_word_length |-> mwl,
      required_char_ratio |-> clamp(ratio),
      case_sensitive |-> cs,
      max_char_gap |-> gap ]

DefaultConfig(term) ==
    FuzzyConfig(term, DefaultMinWordLength, DefaultRequiredCharRatio, FALSE,
                DefaultMaxCharGap)

(***************************************************************************)
(* create_word_pattern                                                     *)
(***************************************************************************)
\* fancy_regex::escape: a backslash before each character special in a regex
RegexSpecial ==
    { "\\", ".", "+", "*", "?", "(", ")", "|", "[", "]", "{", "}", "^", "$", "#" }

escape(c) == IF c \in RegexSpecial THEN << "\\", c >> ELSE << c >>

\* The pattern of a word of one character.
SingleCharPattern(word) ==
    << "(", "?", ":", "[", "^", "\\", "s", "]", "*", "?" >>
        \o escape(word[1])
        \o << "[", "^", "\\", "s", "]", "*", "?", ")" >>

\* CharFragment with case_sensitive ignored: a letter always becomes the
\* class of its two cases (a mutant of CharFragment).
CharFragment_case_ignored(c, config) ==
    IF is_ascii_punctuation(c) \/ is_ascii_digit(c) \/ ~is_ascii(c)
    THEN << "(", "?", ":" >> \o escape(c) \o << ")", "?" >>
    ELSE << "[", to_lowercase(c), to_uppercase(c), "]" >>

\* The fragment of one character of a word (the closure of chars).
CharFragment(c, config) ==
    IF is_ascii_punctuation(c) \/ is_ascii_digit(c) \/ ~is_ascii(c)
    THEN << "(", "?", ":" >> \o escape(c) \o << ")", "?" >>
    ELSE IF config.case_sensitive THEN escape(c)
    ELSE << "[", to_lowercase(c), to_uppercase(c), "]" >>

\* between_pattern with the two kinds of gap exchanged: any character below
\* the threshold, no white space above it (a mutant of between_pattern).
between_pattern_exchanged(config) ==
    IF config.max_char_gap > 0
    THEN IF config.max_char_gap > 10
         THEN << "[", "^", "\\", "s", "]", "{", "0", "," >>
                  \o DecimalDigits(config.max_char_gap) \o << "}" >>
         ELSE << ".", "{", "0", "," >> \o DecimalDigits(config.max_char_gap) \o << "}" >>
    ELSE << >>

\* The threshold one lower (a mutant of LargeGapThreshold).
LargeGapThreshold_nine == DefaultMaxCharGap - 1

\* The threshold above which a gap may hold white space.
LargeGapThreshold == 10

\* between_pattern: what may stand between two characters of a word.
between_pattern(config) ==
    IF config.max_char_gap > 0
    THEN IF config.max_char_gap > LargeGapThreshold
         THEN << ".", "{", "0", "," >> \o DecimalDigits(config.max_char_gap) \o << "}" >>
         ELSE << "[", "^", "\\", "s", "]", "{", "0", "," >>
                  \o DecimalDigits(config.max_char_gap) \o << "}" >>
    ELSE << >>

\* The ratio above which every character of a word is required.
StrictRatio == 90

\* required_chars rounded down instead of up (a mutant of required_chars).
required_chars_floor(n, config) ==
    (n * config.required_char_ratio) \div RatioScale

\* (chars.len() as f32 * config.required_char_ratio).ceil() as usize
required_chars(n, config) ==
    (n * config.required_char_ratio + (RatioScale - 1)) \div RatioScale

\* The strict pattern, and the required prefix of the flexible one: the
\* fragments with between_pattern between each two.
RequiredPattern(frags, config) == Join(frags, between_pattern(config))

\* The optional suffix of the flexible pattern: each fragment followed by ?,
\* with between_pattern between each two, in one optional group.
OptionalPattern(frags, config) ==
    IF frags = << >> THEN << >>
    ELSE << "(", "?", ":" >>
         \o Join([i \in DOMAIN frags |-> Append(frags[i], "?")],
                 between_pattern(config))
         \o << ")", "?" >>

\* char_pattern with the last character of a word always optional: one
\* required character too few (a mutant of char_pattern).
char_pattern_last_optional(chars, config) ==
    LET n == IF config.required_char_ratio > 90 THEN Len(chars) - 1
             ELSE required_chars(Len(chars), config)
        required == SubSeq(chars, 1, n)
        optional == SubSeq(chars, n + 1, Len(chars))
    IN  RequiredPattern(required, config) \o OptionalPattern(optional, config)

char_pattern(chars, config) ==
    IF config.required_char_ratio > StrictRatio
    THEN RequiredPattern(chars, config)
    ELSE LET n == required_chars(Len(chars), config)
             required == SubSeq(chars, 1, n)
             optional == SubSeq(chars, n + 1, Len(chars))
         IN  RequiredPattern(required, config) \o OptionalPattern(optional, config)

create_word_pattern(word, config) ==
    IF Len(word) = 1 THEN SingleCharPattern(word)
    ELSE LET chars == [i \in DOMAIN word |-> CharFragment(word[i], config)]
         IN  << "(", "?", ":" >> \o char_pattern(chars, config) \o << ")" >>

(***************************************************************************)
(* create_fuzzy_pattern                                                    *)
(***************************************************************************)
\* The separator of the sub-runs of a word that holds punctuation.
SubRunSeparator ==
    << "[", "\\", "s", "\\", "p", "{", "Z", "}", "\\", "p", "{", "C", "}", "]", "*" >>

\* The separator of the words of a term.
WordSeparator ==
    << "[", "\\", "s", "\\", "p", "{", "Z", "}", "\\", "p", "{", "C", "}", "]", "+",
       ".", "*", "?" >>

\* The sub-runs of a word between its ASCII punctuation, the empty ones dropped.
SubRuns(word) == SelectSeq(Split(word, AsciiPunctuation, << >>), NonEmpty)

\* The pattern of one word of the term (the closure mapped over words).
WordPattern(word, config) ==
    IF \E i \in DOMAIN word : is_ascii_punctuation(word[i])
    THEN LET parts == SubRuns(word)
         IN  Join([i \in DOMAIN parts |-> create_word_pattern(parts[i], config)],
                  SubRunSeparator)
    ELSE create_word_pattern(word, config)

\* Whether create_fuzzy_pattern logs the warning about short words.
ShortWordWarning(search_term, config) ==
    \E w \in Range(split_whitespace(search_term)) : Len(w) < config.min_word_length

case_flag(config) ==
    IF ~config.case_sensitive THEN << "(", "?", "i", ")" >> ELSE << >>

\* create_fuzzy_pattern with the validation reduced to an emptiness test and
\* no guard on the word list (a mutant of create_fuzzy_pattern).
create_fuzzy_pattern_untrimmed(search_term, config) ==
    IF search_term = << >> THEN EmptyPattern
    ELSE LET words == SelectSeq(split_whitespace(search_term), NonEmpty)
             pats == [i \in DOMAIN words |-> WordPattern(words[i], config)]
         IN  Ok(case_flag(config)
                \o << "(", "?", "s", ")", ".", "*", "?" >>
                \o Join(pats, WordSeparator)
                \o << ".", "*", "?" >>)

\* create_fuzzy_pattern rejecting a term that holds a word shorter than
\* min_word_length (a mutant of create_fuzzy_pattern).
create_fuzzy_pattern_min_enforced(search_term, config) ==
    IF Trim(search_term) = << >> THEN EmptyPattern
    ELSE IF ShortWordWarning(search_term, config) THEN InvalidPattern
    ELSE LET words == SelectSeq(split_whitespace(search_term), NonEmpty)
             pats == [i \in DOMAIN words |-> WordPattern(words[i], config)]
         IN  Ok(case_flag(config)
                \o << "(", "?", "s", ")", ".", "*", "?" >>
                \o Join(pats, WordSeparator)
                \o << ".", "*", "?" >>)

create_fuzzy_pattern(search_term, config) ==
    IF Trim(search_term) = << >> THEN EmptyPattern
    ELSE LET words == SelectSeq(split_whitespace(search_term), NonEmpty)
         IN  IF words = << >> THEN EmptyPattern
             ELSE LET pats == [i \in DOMAIN words |-> WordPattern(words[i], config)]
                  IN  Ok(case_flag(config)
                         \o << "(", "?", "s", ")", ".", "*", "?" >>
                         \o (IF Len(pats) > 1 THEN Join(pats, WordSeparator)
                             ELSE pats[1])
                         \o << ".", "*", "?" >>)

\* FuzzyConfig::build_pattern
build_pattern(config) == create_fuzzy_pattern(config.search_term, config)

\* fuzzy_search_pattern building a case-sensitive configuration (a mutant of
\* fuzzy_search_pattern).
fuzzy_search_pattern_case_sensitive(search_term) ==
    LET r == build_pattern(FuzzyConfig(search_term, DefaultMinWordLength,
                                       DefaultRequiredCharRatio, TRUE,
                                       DefaultMaxCharGap))
    IN  IF r.tag = "Ok" THEN r.pattern ELSE << >>

\* fuzzy_search_pattern
fuzzy_search_pattern(search_term) ==
    LET r == build_pattern(DefaultConfig(search_term))
    IN  IF r.tag = "Ok" THEN r.pattern ELSE << >>


(***************************************************************************)
(* The regex engine (fancy_regex::Regex), as far as the patterns above use *)
(* it: flags, literals, escapes, classes, the dot, non-capturing groups    *)
(* and the repetitions * + ? {m,n} with their lazy forms.  Regex::new      *)
(* parses the pattern into a tree; is_match searches a text for a match of *)
(* the tree starting anywhere.                                             *)
(***************************************************************************)
\* The characters the Unicode classes of the patterns hold.
ClassChars(name) ==
    CASE name = "s" -> AsciiWhitespace \cup UnicodeWhitespace
      [] name = "p{Z}" -> { " ", "U+00A0", "U+2028" }
      [] name = "p{C}" ->
            { "\t", "\n", "\r", "U+0085" } \cup AsciiControl \cup NonAsciiFormat
      [] OTHER -> { }

\* An unbounded repetition count.
Unbounded == -1

AnyNode(dotall) == [k |-> "any", dotall |-> dotall]

SetNode(neg, chars, classes, ci) ==
    [k |-> "set", neg |-> neg, chars |-> chars, classes |-> classes, ci |-> ci]

RepNode(x, min, max, lazy) ==
    [k |-> "rep", x |-> x, min |-> min, max |-> max, lazy |-> lazy]

CatNode(xs) == [k |-> "cat", xs |-> xs]

At(p, i) == IF i \in DOMAIN p THEN p[i] ELSE "<end>"

RECURSIVE ParseNumber(_, _, _)
\* The decimal number at p[i..]: [value, pos, ok].
ParseNumber(p, i, acc) ==
    IF At(p, i) \in Range(AsciiDigits)
    THEN ParseNumber(p, i + 1,
                     [value |-> acc.value * 10 + (IndexOf(AsciiDigits, p[i]) - 1),
                      pos |-> i + 1, ok |-> TRUE])
    ELSE acc

NoNumber(i) == [value |-> 0, pos |-> i, ok |-> FALSE]

RECURSIVE ParseClass(_, _, _, _)
\* The items of a bracketed class from p[i] to its "]": [chars, classes, pos, ok].
ParseClass(p, i, chars, classes) ==
    IF i > Len(p) THEN [chars |-> chars, classes |-> classes, pos |-> i, ok |-> FALSE]
    ELSE IF p[i] = "]"
    THEN [chars |-> chars, classes |-> classes, pos |-> i + 1, ok |-> TRUE]
    ELSE IF p[i] = "\\"
    THEN IF At(p, i + 1) = "s"
         THEN ParseClass(p, i + 2, chars, classes \cup { "s" })
         ELSE IF At(p, i + 1) = "p" /\ At(p, i + 2) = "{" /\ At(p, i + 4) = "}"
         THEN IF At(p, i + 3) = "Z"
              THEN ParseClass(p, i + 5, chars, classes \cup { "p{Z}" })
              ELSE IF At(p, i + 3) = "C"
              THEN ParseClass(p, i + 5, chars, classes \cup { "p{C}" })
              ELSE [chars |-> chars, classes |-> classes, pos |-> i, ok |-> FALSE]
         ELSE IF At(p, i + 1) \in RegexSpecial \cup AsciiPunctuation
         THEN ParseClass(p, i + 2, chars \cup { p[i + 1] }, classes)
         ELSE [chars |-> chars, classes |-> classes, pos |-> i, ok |-> FALSE]
    ELSE ParseClass(p, i + 1, chars \cup { p[i] }, classes)

\* The repetition operator at p[i], if any, applied to node x: [node, pos, ok].
ParseQuant(p, i, x) ==
    LET lazy(j) == At(p, j) = "?"
        done(min, max, j) ==
            [node |-> RepNode(x, min, max, lazy(j)),
             pos |-> IF lazy(j) THEN j + 1 ELSE j, ok |-> TRUE]
    IN  CASE At(p, i) = "*" -> done(0, Unbounded, i + 1)
          [] At(p, i) = "+" -> done(1, Unbounded, i + 1)
          [] At(p, i) = "?" -> done(0, 1, i + 1)
          [] At(p, i) = "{" ->
                LET lo == ParseNumber(p, i + 1, NoNumber(i + 1))
                    hi == ParseNumber(p, lo.pos + 1, NoNumber(lo.pos + 1))
                IN  IF lo.ok /\ At(p, lo.pos) = "," /\ hi.ok /\ At(p, hi.pos) = "}"
                       /\ lo.value <= hi.value
                    THEN done(lo.value, hi.value, hi.pos + 1)
                    ELSE [node |-> x, pos |-> i, ok |-> FALSE]
          [] OTHER -> [node |-> x, pos |-> i, ok |-> TRUE]

RECURSIVE ParseSeq(_, _, _, _, _)
\* The concatenation from p[i] to the end of its group (a ")" or the end of p),
\* under the flags ci (?i) and dotall (?s): [node, pos, ok].
ParseSeq(p, i, ci, dotall, xs) ==
    LET fail == [node |-> CatNode(xs), pos |-> i, ok |-> FALSE]
        item(x, j) ==
            LET q == ParseQuant(p, j, x)
            IN  IF q.ok THEN ParseSeq(p, q.pos, ci, dotall, Append(xs, q.node))
                ELSE fail
        c == At(p, i)
    IN  IF i > Len(p) \/ c = ")" THEN [node |-> CatNode(xs), pos |-> i, ok |-> TRUE]
        ELSE IF c = "(" /\ At(p, i + 1) = "?" /\ At(p, i + 3) = ")"
                /\ At(p, i + 2) \in { "i", "s" }
        THEN ParseSeq(p, i + 4, ci \/ p[i + 2] = "i", dotall \/ p[i + 2] = "s", xs)
        ELSE IF c = "(" /\ At(p, i + 1) = "?" /\ At(p, i + 2) = ":"
        THEN LET g == ParseSeq(p, i + 3, ci, dotall, << >>)
             IN  IF g.ok /\ At(p, g.pos) = ")" THEN item(g.node, g.pos + 1)
                 ELSE fail
        ELSE IF c = "["
        THEN LET neg == At(p, i + 1) = "^"
                 cl == ParseClass(p, IF neg THEN i + 2 ELSE i + 1, { }, { })
             IN  IF cl.ok /\ cl.chars \cup cl.classes # { }
                 THEN item(SetNode(neg, cl.chars, cl.classes, ci), cl.pos)
                 ELSE fail
        ELSE IF c = "." THEN item(AnyNode(dotall), i + 1)
        ELSE IF c = "\\"
        THEN IF At(p, i + 1) = "s" THEN item(SetNode(FALSE, { }, { "s" }, ci), i + 2)
             ELSE IF At(p, i + 1) \in RegexSpecial \cup AsciiPunctuation
             THEN item(SetNode(FALSE, { p[i + 1] }, { }, ci), i + 2)
             ELSE fail
        ELSE IF c \in { "(", "*", "+", "?", "{", "}", "]", "|", "^", "$" } THEN fail
        ELSE item(SetNode(FALSE, { c }, { }, ci), i + 1)

\* fancy_regex::Regex::new
RegexNew(pattern) ==
    LET r == ParseSeq(pattern, 1, FALSE, FALSE, << >>)
    IN  IF r.ok /\ r.pos = Len(pattern) + 1
        THEN [tag |-> "Ok", error |-> "", regex |-> r.node]
        ELSE [tag |-> "Err", error |-> "RegexError", regex |-> CatNode(<< >>)]

\* Whether a set node accepts character c.
SetAccepts(node, c) ==
    LET in(d) == d \in node.chars \/ \E cl \in node.classes : d \in ClassChars(cl)
        hit == in(c) \/ (node.ci /\ (in(to_lowercase(c)) \/ in(to_uppercase(c))))
    IN  hit # node.neg

RECURSIVE Ends(_, _, _)
RECURSIVE EndsCat(_, _, _, _)
RECURSIVE EndsTimes(_, _, _, _)
RECURSIVE EndsUpTo(_, _, _, _, _)
\* The offsets at which a match of node that starts at an offset of starts
\* may end in text (an offset is the number of characters before it).
Ends(node, text, starts) ==
    CASE node.k = "set" ->
            { i + 1 : i \in { j \in starts : j < Len(text) /\ SetAccepts(node, text[j + 1]) } }
      [] node.k = "any" ->
            { i + 1 : i \in { j \in starts : j < Len(text)
                                             /\ (node.dotall \/ text[j + 1] # "\n") } }
      [] node.k = "cat" -> EndsCat(node.xs, 1, text, starts)
      [] node.k = "rep" ->
            LET first == EndsTimes(node.x, node.min, text, starts)
            IN  EndsUpTo(node.x, IF node.max = Unbounded THEN Unbounded
                                 ELSE node.max - node.min, text, first, first)

EndsCat(xs, k, text, starts) ==
    IF k > Len(xs) \/ starts = { } THEN starts
    ELSE EndsCat(xs, k + 1, text, Ends(xs[k], text, starts))

\* Exactly n matches of x in a row.
EndsTimes(x, n, text, starts) ==
    IF n = 0 \/ starts = { } THEN starts
    ELSE EndsTimes(x, n - 1, text, Ends(x, text, starts))

\* Up to n more matches of x in a row (any number when n is Unbounded), from
\* the offsets of frontier; acc holds the offsets reached so far.
EndsUpTo(x, n, text, frontier, acc) ==
    IF n = 0 \/ frontier = { } THEN acc
    ELSE LET new == Ends(x, text, frontier) \ acc
         IN  EndsUpTo(x, IF n = Unbounded THEN Unbounded ELSE n - 1, text,
                      new, acc \cup new)

\* fancy_regex::Regex::is_match
is_match(regex, text) == Ends(regex, text, 0 .. Len(text)) # { }


(***************************************************************************)
(* The program as a state machine.  A caller builds a FuzzyConfig, asks it *)
(* for its pattern, compiles the pattern and searches a text with it, as   *)
(* the tests of the crate do; fuzzy_search_pattern may be called with the  *)
(* same term at any time.  An Option is a sequence of at most one element. *)
(***************************************************************************)
VARIABLES
    config,     \* the FuzzyConfig the builder returned
    text,       \* the text the caller searches
    result,     \* what config.build_pattern() returned, once called
    warned,     \* whether the short-word warning was logged
    regex,      \* what Regex::new(&pattern) returned, once called
    matched,    \* what regex.is_match(text) returned, once called
    quick       \* what fuzzy_search_pattern(term) returned, once called

vars == << config, text, result, warned, regex, matched, quick >>

\* The strings of at most n characters of alphabet.
Strings(alphabet, n) == UNION { [1 .. k -> alphabet] : k \in 0 .. n }

\* The state after FuzzyConfig::builder()...build(), for a pair (term, text)
\* of inputs and the settings given to the builder: min_word_length,
\* required_char_ratio, case_sensitive and max_char_gap.
InitOf(inputs, mwls, ratios, css, gaps) ==
    /\ \E in \in inputs, mwl \in mwls, ratio \in ratios, cs \in css, gap \in gaps :
          /\ config = FuzzyConfig(in[1], mwl, ratio, cs, gap)
          /\ text = in[2]
    /\ result = << >>
    /\ warned = FALSE
    /\ regex = << >>
    /\ matched = << >>
    /\ quick = << >>

\* let result = config.build_pattern();
BuildPattern ==
    /\ result = << >>
    /\ result' = << build_pattern(config) >>
    /\ warned' = (result'[1].tag = "Ok" /\ ShortWordWarning(config.search_term, config))
    /\ UNCHANGED << config, text, regex, matched, quick >>

\* let regex = Regex::new(&result.unwrap());
NewRegex ==
    /\ result # << >>
    /\ result[1].tag = "Ok"
    /\ regex = << >>
    /\ regex' = << RegexNew(result[1].pattern) >>
    /\ UNCHANGED << config, text, result, warned, matched, quick >>

\* regex.unwrap().is_match(text).unwrap()
IsMatch ==
    /\ regex # << >>
    /\ regex[1].tag = "Ok"
    /\ matched = << >>
    /\ matched' = << is_match(regex[1].regex, text) >>
    /\ UNCHANGED << config, text, result, warned, regex, quick >>

\* fuzzy_search_pattern(&search_term)
FuzzySearchPattern ==
    /\ quick = << >>
    /\ quick' = << fuzzy_search_pattern(config.search_term) >>
    /\ UNCHANGED << config, text, result, warned, regex, matched >>

Next == BuildPattern \/ NewRegex \/ IsMatch \/ FuzzySearchPattern

\* The calls of a test that searches a text: build, compile, match.
NextMatch == BuildPattern \/ NewRegex \/ IsMatch

(***************************************************************************)
(* Spec: terms of letters, digits, punctuation and white space under every *)
(* combination of a few settings; the text searched is the term itself.    *)
(***************************************************************************)
MaxTermLen == 3

TermAlphabet == { "a", "1", ".", " ", "\t" }

MaxMinWordLength == 4

Ratios == { -20, 0, 50, 130 }

Gaps == { 0, 10, 11 }

Init ==
    InitOf({ << t, t >> : t \in Strings(TermAlphabet, MaxTermLen) },
           { DefaultMinWordLength, MaxMinWordLength }, Ratios, BOOLEAN, Gaps)

Spec == Init /\ [][Next]_vars

(***************************************************************************)
(* Claims about build_pattern and fuzzy_search_pattern alone, under Spec.  *)
(***************************************************************************)
\* A term that is empty or holds white space only.
IsBlank(term) == \A i \in DOMAIN term : term[i] \in AsciiWhitespace \cup UnicodeWhitespace

\* C1: under every configuration build_pattern returns the EmptyPattern error
\* exactly when the search term is empty or all white space; for every other
\* term it returns a (non-empty) pattern string, and it never returns
\* InvalidPattern or RegexError.
C1_EmptyPatternIffBlank ==
    result # << >> =>
        /\ (result[1] = EmptyPattern) <=> IsBlank(config.search_term)
        /\ ~IsBlank(config.search_term) =>
              result[1].tag = "Ok" /\ result[1].pattern # << >>
        /\ result[1].tag \in { "Ok", "Err" }
        /\ result[1].tag = "Err" => result[1].error = "EmptyPattern"
        /\ result[1] # InvalidPattern /\ result[1] # RegexError

\* C1 witness: a term of a space and a tab was rejected with EmptyPattern.
C1_Witness ==
    /\ config.search_term = << " ", "\t" >>
    /\ config.max_char_gap = 11
    /\ result = << EmptyPattern >>

\* The settings fuzzy_search_pattern is documented to use, written out.
AllDefaults(c) ==
    /\ c.min_word_length = 3
    /\ c.required_char_ratio = 50
    /\ c.case_sensitive = FALSE
    /\ c.max_char_gap = 10

\* C7: fuzzy_search_pattern(term) returns the string build_pattern returns
\* for the term with every setting at its default, and the empty string
\* exactly when the term is blank (when build_pattern fails); a successful
\* result is never the empty string.
C7_QuickIsDefaultPattern ==
    quick # << >> =>
        /\ (quick[1] = << >>) <=> IsBlank(config.search_term)
        /\ (result # << >> /\ AllDefaults(config)) =>
              /\ result[1].tag = "Ok" => quick[1] = result[1].pattern /\ quick[1] # << >>
              /\ result[1].tag = "Err" => quick[1] = << >>

\* C7 witness: both functions were called on a non-blank term under the
\* defaults and returned the same non-empty string.
C7_Witness ==
    /\ AllDefaults(config)
    /\ config.search_term = << "a", ".", "1" >>
    /\ result # << >> /\ result[1].tag = "Ok"
    /\ quick = << result[1].pattern >>

MaxPunctTermLen == 5

PunctTermAlphabet == { "a", "b", "." }

\* The positions of term that hold punctuation with a sub-run on both sides.
InnerPunctuation(term) ==
    { i \in DOMAIN term : /\ is_ascii_punctuation(term[i])
                          /\ 1 < i /\ i < Len(term)
                          /\ ~is_ascii_punctuation(term[i - 1])
                          /\ ~is_ascii_punctuation(term[i + 1]) }

\* What may stand for the punctuation character p of a term in a text.
PunctuationRenditions(p) == { << p >>, << >>, << p, p >>, << "-" >>, << " " >> }

\* The texts got from term by rewriting one inner punctuation character.
PunctuationVariants(term) ==
    { SubSeq(term, 1, i - 1) \o x \o SubSeq(term, i + 1, Len(term)) :
        i \in InnerPunctuation(term), x \in UNION { PunctuationRenditions(term[j]) : j \in DOMAIN term } }

InitPunct ==
    InitOf(UNION { { << t, x >> : x \in { t } \cup PunctuationVariants(t) } :
                     t \in Strings(PunctTermAlphabet, MaxPunctTermLen) },
           { DefaultMinWordLength }, { 50, 100 }, { FALSE }, Gaps)

SpecPunct == InitPunct /\ [][NextMatch]_vars

\* C2: reflexivity.  Under the default configuration the pattern of every
\* non-blank term matches the term itself, terms with punctuation between
\* short runs included.
C2_Reflexive ==
    (AllDefaults(config) /\ matched # << >> /\ text = config.search_term)
        => matched[1] = TRUE

\* C9: a word with punctuation between two sub-runs is matched by each text
\* that keeps, removes, repeats or replaces that punctuation (by other
\* punctuation or by white space), whatever the sub-runs, max_char_gap and
\* required_char_ratio are.
C9_PunctuationVariantsMatch ==
    (matched # << >> /\ text \in PunctuationVariants(config.search_term))
        => matched[1] = TRUE

(***************************************************************************)
(* SpecWords: terms of several words of letters and digits, searched in    *)
(* every short text of letters, digits and spaces.                         *)
(***************************************************************************)
MaxWordsTermLen == 4

MaxWordsTextLen == 3

WordsAlphabet == { "a", "1", " " }

InitWords ==
    InitOf(Strings(WordsAlphabet, MaxWordsTermLen) \X Strings(WordsAlphabet, MaxWordsTextLen),
           { DefaultMinWordLength }, { DefaultRequiredCharRatio }, { FALSE },
           { DefaultMaxCharGap })

SpecWords == InitWords /\ [][NextMatch]_vars

\* Characters equal up to case.
SameLetter(c, d) == to_lowercase(c) = to_lowercase(d)

\* White space, separator and control characters.
IsSeparator(c) == c \in ClassChars("s") \cup ClassChars("p{Z}") \cup ClassChars("p{C}")

RECURSIVE AppearInOrder(_, _, _, _)
\* Whether the leading characters of words[k..] occur in txt in this order,
\* from position from on, with a separator before each but the first word.
AppearInOrder(words, k, txt, from) ==
    IF k > Len(words) THEN TRUE
    ELSE \E i \in from .. Len(txt) :
            /\ SameLetter(txt[i], words[k][1])
            /\ k > 1 => \E j \in from .. i - 1 : IsSeparator(txt[j])
            /\ AppearInOrder(words, k + 1, txt, i + 1)

\* C3: the pattern of a term of two or more words matches a text only if
\* every word (at least its leading character) occurs in the text, in the
\* order of the term, with a separator between consecutive words; words of
\* digits included.
C3_EveryWordAppears ==
    LET words == split_whitespace(config.search_term)
    IN  (Len(words) >= 2 /\ matched = << TRUE >>) => AppearInOrder(words, 1, text, 1)

\* The same for terms whose words are all letters (not claimed; a sanity check).
C3_LetterWordsAppear ==
    LET words == split_whitespace(config.search_term)
    IN  (/\ Len(words) >= 2
         /\ \A i \in DOMAIN config.search_term : config.search_term[i] \in { "a", " " }
         /\ matched = << TRUE >>)
           => AppearInOrder(words, 1, text, 1)

(***************************************************************************)
(* SpecCase: terms of ASCII letters, searched in each of their renditions  *)
(* in other letter case, with and without case_sensitive.                  *)
(***************************************************************************)
MaxCaseTermLen == 3

CaseAlphabet == { "a", "A", "b", "B" }

\* The texts that differ from term in the case of letters at most.
CaseRenditions(term) ==
    { x \in [DOMAIN term -> CaseAlphabet] : \A i \in DOMAIN term : SameLetter(x[i], term[i]) }

InitCase ==
    InitOf(UNION { { << t, x >> : x \in CaseRenditions(t) } :
                     t \in Strings(CaseAlphabet, MaxCaseTermLen) },
           { DefaultMinWordLength }, { 0, 50, 100 }, BOOLEAN, { 0, DefaultMaxCharGap })

SpecCase == InitCase /\ [][NextMatch]_vars

\* The number of leading letters of a word of n letters that a match needs:
\* ceil(n * ratio), all of them above the strict ratio or for a single letter.
RequiredPrefixLen(n, ratio) ==
    IF n = 1 \/ ratio > 90 THEN n
    ELSE CHOOSE k \in 0 .. n : 100 * (k - 1) < n * ratio /\ n * ratio <= 100 * k

\* C4 as claimed: the case-sensitive pattern matches the term and none of its
\* other case renditions, wherever the changed letter sits; the
\* case-insensitive pattern matches them all.  (Stated for the default ratio
\* and gap.)
C4_RejectsEveryRendition ==
    (/\ matched # << >> /\ config.search_term # << >>
     /\ config.required_char_ratio = 50 /\ config.max_char_gap = 10) =>
        IF config.case_sensitive
        THEN matched[1] <=> (text = config.search_term)
        ELSE matched[1] = TRUE

\* C4 as amended: the case-sensitive pattern matches the term, rejects each
\* rendition in which a letter of the required prefix does not occur in the
\* case the term has it, and accepts each rendition that leaves the required
\* prefix as it is; the case-insensitive pattern matches every rendition.
C4_RejectsChangedRequiredPrefix ==
    LET term == config.search_term
        n == RequiredPrefixLen(Len(term), config.required_char_ratio)
    IN  (matched # << >> /\ term # << >>) =>
            IF config.case_sensitive
            THEN /\ text = term => matched[1] = TRUE
                 /\ (\E i \in 1 .. n : term[i] \notin Range(text)) => matched[1] = FALSE
                 /\ SubSeq(text, 1, n) = SubSeq(term, 1, n) => matched[1] = TRUE
            ELSE matched[1] = TRUE

\* C4 witness: the case-sensitive pattern of "Ab" was tried on "ab" and did
\* not match.
C4_Witness ==
    /\ config.case_sensitive
    /\ config.required_char_ratio = 50
    /\ config.search_term = << "A", "b" >>
    /\ text = << "a", "b" >>
    /\ matched = << FALSE >>

(***************************************************************************)
(* SpecGap: one-word terms of letters, searched in every short text of     *)
(* letters and spaces, for gaps on both sides of the threshold.            *)
(***************************************************************************)
MaxGapTermLen == 2

MaxGapTextLen == 4

GapTermAlphabet == { "a", "b" }

GapTextAlphabet == { "a", "b", " " }

GapValues == { 0, 1, 10, 11 }

InitGap ==
    InitOf(Strings(GapTermAlphabet, MaxGapTermLen) \X Strings(GapTextAlphabet, MaxGapTextLen),
           { DefaultMinWordLength }, { 0, 100 }, { FALSE }, GapValues)

SpecGap == InitGap /\ [][NextMatch]_vars

\* Whether the pattern of configuration c compiles and matches txt.
MatchesWith(c, txt) ==
    LET r == build_pattern(c)
    IN  r.tag = "Ok" /\ is_match(RegexNew(r.pattern).regex, txt)

\* C5: monotonicity in max_char_gap.  A text matched by the pattern built
\* with one gap is matched by the pattern built with any larger gap, the
\* other settings being the same (across the threshold of 10 too).
C5_GapMonotone ==
    matched = << TRUE >> =>
        \A g \in GapValues \cup { 2, 12 } :
            g >= config.max_char_gap => MatchesWith([config EXCEPT !.max_char_gap = g], text)

\* C5 witness: a text matched with gap 1 that gap 0 does not match.
C5_Witness ==
    /\ config.max_char_gap = 1
    /\ matched = << TRUE >>
    /\ ~MatchesWith([config EXCEPT !.max_char_gap = 0], text)

\* The fragment the gap policy prescribes for gap g.
GapFragment(g) ==
    IF g = 0 THEN << >>
    ELSE IF g <= 10 THEN << "[", "^", "\\", "s", "]", "{", "0", "," >> \o DecimalDigits(g) \o << "}" >>
    ELSE << ".", "{", "0", "," >> \o DecimalDigits(g) \o << "}" >>

\* The spans (start, end offsets) of txt that the sub-pattern of word matches
\* under configuration c.
WordSpans(word, c, txt) ==
    LET re == RegexNew(case_flag(c) \o << "(", "?", "s", ")" >> \o create_word_pattern(word, c))
    IN  { << i, j >> \in (0 .. Len(txt)) \X (0 .. Len(txt)) : j \in Ends(re.regex, txt, { i }) }

HasWhitespace(txt, span) ==
    \E k \in span[1] + 1 .. span[2] : txt[k] \in AsciiWhitespace \cup UnicodeWhitespace

\* C10: the gap fragment is empty for max_char_gap 0, up to max_char_gap
\* characters other than white space for 1..10, and up to max_char_gap
\* characters of any kind from 11 on; so up to 10 no part of a text matched by
\* the sub-pattern of a word holds white space, and a text that matches has a
\* chunk free of white space that matches.
C10_GapPolicy ==
    /\ between_pattern(config) = GapFragment(config.max_char_gap)
    /\ (matched # << >> /\ config.max_char_gap <= 10) =>
          /\ \A w \in Range(split_whitespace(config.search_term)) :
                \A span \in WordSpans(w, config, text) : ~HasWhitespace(text, span)
          /\ (matched[1] /\ config.required_char_ratio > 0) =>
                \E chunk \in Range(split_whitespace(text)) : MatchesWith(config, chunk)

\* C10 witness: with gap 11 the sub-pattern of a word matched a part of the
\* text that holds a space.
C10_Witness ==
    /\ config.max_char_gap = 11
    /\ config.required_char_ratio = 100
    /\ matched = << TRUE >>
    /\ \E w \in Range(split_whitespace(config.search_term)) :
          \E span \in WordSpans(w, config, text) : HasWhitespace(text, span)
    /\ ~MatchesWith([config EXCEPT !.max_char_gap = 10], text)

(***************************************************************************)
(* SpecStrict: one-word terms of letters and digits under a ratio above    *)
(* 0.9, searched in every short text of letters and spaces.                *)
(***************************************************************************)
MaxStrictTermLen == 3

MaxStrictTextLen == 3

StrictTermAlphabet == { "a", "b", "1" }

StrictTextAlphabet == { "a", "b", " " }

InitStrict ==
    InitOf(Strings(StrictTermAlphabet, MaxStrictTermLen)
               \X Strings(StrictTextAlphabet, MaxStrictTextLen),
           { DefaultMinWordLength }, { 91, 100 }, { FALSE }, { 0, 1, 11 })

SpecStrict == InitStrict /\ [][NextMatch]_vars

IsAsciiLetter(c) == c \in Range(AsciiLowercase) \cup Range(AsciiUppercase)

\* What the gap policy lets stand between two letters of a word that are
\* apart characters apart in the word (apart - 1 optional characters between
\* them): the part txt[from .. to] of a text.
GapAllows(c, apart, txt, from, to) ==
    /\ to - from + 1 <= apart * c.max_char_gap + (apart - 1)
    /\ c.max_char_gap <= 10 =>
          \A k \in from .. to : txt[k] \notin AsciiWhitespace \cup UnicodeWhitespace

RECURSIVE LettersInOrder(_, _, _, _, _, _)
\* Whether the letters of word[k..] occur in txt after position last (where
\* the letter word[prev] was found; prev = 0 when none was), in order, each
\* two consecutive ones separated by what the gap policy allows.
LettersInOrder(word, k, prev, txt, last, c) ==
    IF k > Len(word) THEN TRUE
    ELSE IF ~IsAsciiLetter(word[k]) THEN LettersInOrder(word, k + 1, prev, txt, last, c)
    ELSE \E i \in last + 1 .. Len(txt) :
            /\ IF c.case_sensitive THEN txt[i] = word[k] ELSE SameLetter(txt[i], word[k])
            /\ prev > 0 => GapAllows(c, k - prev, txt, last + 1, i - 1)
            /\ LettersInOrder(word, k + 1, k, txt, i, c)

\* C6: with required_char_ratio above 0.9 every character of a word of
\* several characters is required: a text matches only if it holds all the
\* ASCII letters of the word in order, consecutive ones separated by what the
\* gap policy allows; the term without its last letter does not match.
C6_StrictRequiresEveryLetter ==
    LET term == config.search_term
    IN  (config.required_char_ratio > 90 /\ matched # << >>) =>
            /\ matched[1] =>
                  \A w \in Range(split_whitespace(term)) :
                      LettersInOrder(w, 1, 0, text, 0, config)
            /\ (/\ Len(term) >= 2
                /\ IsAsciiLetter(term[Len(term)])
                /\ text = SubSeq(term, 1, Len(term) - 1)) => matched[1] = FALSE

\* C6 witness: under ratio 1.0 the pattern of "ab" was tried on "a" and did
\* not match.
C6_Witness ==
    /\ config.required_char_ratio = 100
    /\ config.search_term = << "a", "b" >>
    /\ text = << "a" >>
    /\ matched = << FALSE >>

(***************************************************************************)
(* SpecRatio: terms of one word of letters and digits under ratios up to   *)
(* 0.9; the text searched is a prefix of the term.                         *)
(***************************************************************************)
MaxRatioTermLen == 4

RatioTermAlphabet == { "a", "b", "1" }

RatioValues == { 0, 1, 25, 50, 75, 90 }

RatioGaps == { 0, 2, 11 }

\* The prefixes of a string, the empty one and the string itself included.
Prefixes(s) == { SubSeq(s, 1, k) : k \in 0 .. Len(s) }

InitRatio ==
    InitOf(UNION { { << t, p >> : p \in Prefixes(t) } :
                   t \in Strings(RatioTermAlphabet, MaxRatioTermLen) },
           { DefaultMinWordLength }, RatioValues, { FALSE }, RatioGaps)

SpecRatio == InitRatio /\ [][NextMatch]_vars

\* ceil(n * ratio), the ratio in hundredths: the least k with k >= n * ratio.
CeilOfProduct(n, ratio) ==
    CHOOSE k \in 0 .. n + 1 :
        /\ k * RatioScale >= n * ratio
        /\ \A j \in 0 .. k - 1 : j * RatioScale < n * ratio

\* Whether a node of a word sub-pattern is a gap between two fragments.
IsGap(x) ==
    /\ x.k = "rep"
    /\ x.min = 0
    /\ x.max = config.max_char_gap
    /\ x.x.k \in { "set", "any" }

\* The nodes of xs that are not gaps.
NonGaps(xs) == SelectSeq(xs, LAMBDA x : ~IsGap(x))

RECURSIVE FragmentChars(_)
\* The characters the fragment of one character accepts.
FragmentChars(x) ==
    CASE x.k = "set" -> x.chars
      [] x.k = "rep" -> FragmentChars(x.x)
      [] x.k = "cat" -> IF Len(x.xs) = 1 THEN FragmentChars(x.xs[1]) ELSE { }
      [] OTHER -> { }

\* The characters the fragment of character c of a term is expected to accept.
CasesOf(c) ==
    IF IsAsciiLetter(c) THEN { to_lowercase(c), to_uppercase(c) } ELSE { c }

\* Whether node x may match nothing once: an optional x.
IsOptional(x) == x.k = "rep" /\ x.min = 0 /\ x.max = 1

\* The position of the last letter among the first k characters of term, 0
\* when there is none.
LastLetterWithin(term, k) ==
    LET ps == { i \in 1 .. k : IsAsciiLetter(term[i]) }
    IN  IF ps = { } THEN 0 ELSE CHOOSE i \in ps : \A j \in ps : j <= i

\* C11: for a word of n >= 2 letters and digits and a ratio r <= 0.9, the
\* count of required characters is ceil(n * r) and lies in 0 .. n, so the
\* pattern is always built; the compiled word sub-pattern holds exactly the
\* fragments of the first ceil(n * r) characters as its required prefix (a
\* letter fragment mandatory) and, when characters remain, one optional group
\* of the remaining n - ceil(n * r) fragments, each optional on its own; a
\* prefix of the term is matched exactly when it reaches the last letter of
\* the required prefix; with r = 0 the count is 0 and every text, the empty
\* one included, is matched.
C11_RequiredPrefixSplit ==
    LET term == config.search_term
        n == Len(term)
        rc == CeilOfProduct(n, config.required_char_ratio)
    IN  (n >= 2 /\ config.required_char_ratio <= StrictRatio) =>
          /\ rc \in 0 .. n
          /\ required_chars(n, config) = rc
          /\ config.required_char_ratio = 0 => rc = 0
          /\ result # << >> => result[1].tag = "Ok"
          /\ regex # << >> =>
                /\ regex[1].tag = "Ok"
                /\ Len(regex[1].regex.xs) = 3
                /\ LET items == NonGaps(regex[1].regex.xs[2].xs)
                   IN  /\ Len(items) = rc + (IF rc < n THEN 1 ELSE 0)
                       /\ \A i \in 1 .. rc :
                             /\ FragmentChars(items[i]) = CasesOf(term[i])
                             /\ IsAsciiLetter(term[i]) => items[i].k = "set"
                       /\ rc < n =>
                             /\ IsOptional(items[rc + 1])
                             /\ items[rc + 1].x.k = "cat"
                             /\ LET optional == NonGaps(items[rc + 1].x.xs)
                                IN  /\ Len(optional) = n - rc
                                    /\ \A j \in 1 .. n - rc :
                                          /\ IsOptional(optional[j])
                                          /\ FragmentChars(optional[j])
                                                = CasesOf(term[rc + j])
          /\ matched # << >> =>
                /\ matched[1] = (Len(text) >= LastLetterWithin(term, rc))
                /\ config.required_char_ratio = 0 => matched[1]

\* A word of three letters under the default ratio: two required letters, one
\* optional; the text holds the required prefix only and is matched.
C11_Witness ==
    /\ config.required_char_ratio = DefaultRequiredCharRatio
    /\ config.search_term = << "a", "b", "a" >>
    /\ text = << "a", "b" >>
    /\ regex # << >>
    /\ matched = << TRUE >>

=============================================================================
